---- MODULE Spec2Model ----
(***************************************************************************)
(* A model of the signal windowing, streaming and conversion code of       *)
(* idp2023_example: SignalAnalyzer (signal_analyzer.py), SignalConverter    *)
(* (signal_converter.py), Worker (worker.py) and SignalAppWidget           *)
(* (signal_app_widget.py).                                                 *)
(*                                                                         *)
(* Four specifications share the variables:                                *)
(*   SpecRead  the readers _read_signal and _read_signal_at as functions   *)
(*             of the file and their arguments;                            *)
(*   SpecConv  one SignalConverter, start() step by step, with cancel()    *)
(*             called from another thread;                                 *)
(*   SpecAn    one SignalAnalyzer, start() and the window calls run step   *)
(*             by step by a Worker on one pool thread, the chart slots run *)
(*             by the GUI thread, stop() called from the GUI thread;       *)
(*   SpecWidget  SignalAppWidget: its buttons hand Workers to a pool of    *)
(*             two threads that share the one SignalAnalyzer.              *)
(*                                                                         *)
(* Numbers: a sample value is an integer; NaN, PosInf and NegInf are       *)
(* integers outside the range of every sample, compared through Lt and Gt, *)
(* which treat NaN as numpy does (every comparison with NaN is false).     *)
(***************************************************************************)
EXTENDS Integers, Sequences, FiniteSets, TLC

\* ------------------------------------------------------------------ bounds
\* The longest file (data rows) the specifications enumerate.
MaxRows == 4
\* The largest chunk_size argument SpecRead passes to _read_signal.
MaxChunk == 3
\* How far beyond MaxRows a window request of SpecRead may end.
MaxBeyond == 2

\* ------------------------------------------------------------ float values
NaN == -1000000
PosInf == 1000000
NegInf == -1000001

IsNaN(v) == v = NaN

\* a < b and a > b on float64: false whenever an operand is NaN.
Lt(a, b) == ~IsNaN(a) /\ ~IsNaN(b) /\ a < b
Gt(a, b) == ~IsNaN(a) /\ ~IsNaN(b) /\ a > b

NaNRow == <<NaN, NaN>>

\* np.ones((n, 2)) * np.nan
NaNRows(n) == [j \in 1..n |-> NaNRow]

Min(a, b) == IF a < b THEN a ELSE b
Max(a, b) == IF a > b THEN a ELSE b

\* ------------------------------------------------------- integer conversions
\* A value stored in a numpy int16 cell: two's complement, 16 bits.
Int16(v) == ((v + 32768) % 65536) - 32768
\* A value stored in a numpy uint16 cell.
Uint16(v) == v % 65536
\* astype(np.float64) of a 16-bit integer: every such integer is a float64, so
\* the value is kept; a float is represented by the integer it equals.
Float64(v) == v

Float64Row(row) == <<Float64(row[1]), Float64(row[2])>>

\* ------------------------------------------------------------ files on disk
CsvSamples == {<<1, 2>>, <<3, 4>>, <<5, 6>>}
NpySamples == {<<1, 2>>, <<-3, 4>>, <<5, -6>>}

SeqsUpTo(S, n) == UNION {[1..k -> S] : k \in 0..n}

\* Well-formed CSV files: a header line (not represented) and data rows.
CsvFiles == SeqsUpTo(CsvSamples, MaxRows)
\* Binary files: rows of two int16 values.
NpyFiles == SeqsUpTo(NpySamples, MaxRows)

\* ----------------------------------------------------------------- state
VARIABLES
    \* the file system
    csv_rows,       \* data rows of the CSV file (after its header line)
    npy_rows,       \* rows of the binary signal file
    source_exists,  \* the converter's source path names a file
    \* SignalAnalyzer fields
    signal_path,    \* "none" (None or not a file), "csv", "npy", "other"
    running, x, max_x, x_array, y_array, y_min, y_max,
    \* results of the reader calls made by SpecRead
    rd_call,        \* the last reader call and its arguments
    chunks,         \* the chunks _read_signal yielded, in yield order
    window,         \* the rows _read_signal_at returned
    \* SignalConverter: its field, the locals of start() and what it leaves
    cancelled,
    c_pc,           \* where start() is
    has_cb,         \* a progress_callback was passed
    row_count,
    c_pos,          \* rows the current csv.reader loop has consumed
    data,           \* the memory-mapped target array
    target_exists,  \* the target path exists on disk
    durable,        \* the array as of the last data.flush()
    progress,       \* the values emitted on progress_callback, in order
    result,         \* "none", "True", "False", or the exception raised
    cancel_during,  \* cancel() was called after the reset and before the return
    cancel_queued,  \* cancel() was called while the Worker waited for its thread
    \* the thread pool: the Worker each thread runs and the method it is in
    a_pc,           \* per thread: where it is ("idle": the thread is free)
    a_fn,           \* per thread: the runner function of its Worker
    a_path,         \* per thread: the signal_path argument of its Worker
    connected,      \* per thread: finished is connected to the widget's slot
    gen_path,       \* per thread: the path the generator of this pass opened
    gen_pos,        \* per thread: chunks the generator of this pass has yielded
    vis,            \* per thread: the locals vis_x, vis_y awaiting update_chart
    a_result,       \* per thread: how fn ended: "none", "returned", "ValueError"
    w_log,          \* per thread: the Worker signals emitted by this run, in order
    run,            \* per thread: passes begun and renderer calls made by this run
    iter,           \* the last loop iteration of start(): what it found and took
    start_called,   \* start() has been called on this instance
    stop_req,       \* stop() was called since start() was last invoked
    after_stop,     \* series calls start() has made since that stop(): 0, 1, 2
    \* the GUI thread and the chart
    gui_queue,      \* slot calls queued for the GUI thread, oldest first
    last_kind,      \* the renderer slot the GUI thread ran last
    axis_prev,      \* the set_axis_y call before the last one
    axis,           \* the last set_axis_y call: <<min, max>>
    n_axis,         \* set_axis_y calls so far: 0, 1, 2 (two or more)
    chart,          \* the last replace_array call: <<vis_x, vis_y>>
    \* SignalAppWidget
    w_path,         \* SignalAppWidget.signal_path
    prev_enabled,   \* the Previous window button is enabled
    next_enabled,   \* the Next window button is enabled
    pool_queue,     \* Workers handed to the thread pool that wait for a thread
    launched        \* Workers the widget has handed to the thread pool so far

filevars == <<csv_rows, npy_rows, source_exists>>
fieldvars == <<signal_path, running, x, max_x, x_array, y_array, y_min, y_max>>
readvars == <<rd_call, chunks, window>>
convvars == <<cancelled, c_pc, has_cb, row_count, c_pos, data, target_exists,
              durable, progress, result, cancel_during, cancel_queued>>
workervars == <<a_pc, a_fn, a_path, connected, gen_path, gen_pos, vis, a_result,
                w_log>>
ghostvars == <<run, iter, start_called, stop_req, after_stop>>
taskvars == <<workervars, ghostvars>>
rendervars == <<gui_queue, last_kind, axis_prev, axis, n_axis, chart>>
widgetvars == <<w_path, prev_enabled, next_enabled, pool_queue, launched>>
vars == <<filevars, fieldvars, readvars, convvars, taskvars, rendervars, widgetvars>>

\* The threads of QThreadPool.globalInstance() the model lets run.
PoolThreads == {1, 2}

\* ------------------------------------------------ SignalAnalyzer.__init__
\* window_size = 600 * 50000 and chunk_size = 500000 in the source; the model
\* keeps chunk_size < window_size and scales both down.
window_size == 4
chunk_size == 2

\* np.linspace(a, a + n - 1, n): the ramp a, a+1, ..., a+n-1.
Linspace(a, n) == [j \in 1..n |-> a + j - 1]

\* x_array / 50000: sample numbers to seconds. The value k / 50000 is kept as
\* the pair of its numerator and its divisor.
sample_rate == 50000
Scaled(ramp) == [j \in 1..Len(ramp) |-> <<ramp[j], sample_rate>>]

AnalyzerInit ==
    /\ signal_path = "none"
    /\ running = FALSE
    /\ x = 0
    /\ max_x = 0
    /\ x_array = Scaled([j \in 1..window_size |-> 0])
    /\ y_array = [j \in 1..window_size |-> NaN]
    /\ y_max = NegInf
    /\ y_min = PosInf

\* What a run has done so far: passes of the file begun, renderer calls made,
\* and, for a window method, what it found when it was called: x, max_x and
\* the answers has_previous_window() and has_next_window() would have given.
NoCalls == [passes |-> 0, axis |-> 0, chart |-> 0, x_before |-> 0,
            max_x_before |-> 0, had_previous |-> FALSE, had_next |-> FALSE]

\* No Worker has run and the chart has been given nothing.
TaskInit ==
    /\ a_pc = [t \in PoolThreads |-> "idle"]
    /\ a_fn = [t \in PoolThreads |-> "none"]
    /\ a_path = [t \in PoolThreads |-> "none"]
    /\ connected = [t \in PoolThreads |-> FALSE]
    /\ gen_path = [t \in PoolThreads |-> "none"]
    /\ gen_pos = [t \in PoolThreads |-> 0]
    /\ vis = [t \in PoolThreads |-> <<>>]
    /\ a_result = [t \in PoolThreads |-> "none"]
    /\ w_log = [t \in PoolThreads |-> <<>>]
    /\ run = [t \in PoolThreads |-> NoCalls]
    /\ iter = <<>>
    /\ start_called = FALSE
    /\ stop_req = FALSE
    /\ after_stop = 0
    /\ gui_queue = <<>>
    /\ last_kind = "none"
    /\ axis_prev = <<>>
    /\ axis = <<>>
    /\ n_axis = 0
    /\ chart = <<>>

\* SignalAppWidget.__init__: no path yet; a QPushButton starts out enabled.
WidgetInit ==
    /\ w_path = "none"
    /\ prev_enabled = TRUE
    /\ next_enabled = TRUE
    /\ pool_queue = <<>>
    /\ launched = 0

\* --------------------------------------------------------- SignalConverter
\* The class attribute cancelled = False; nothing of start() has run.
ConverterInit ==
    /\ cancelled = FALSE
    /\ c_pc = "idle"
    /\ row_count = 0
    /\ c_pos = 0
    /\ data = <<>>
    /\ target_exists = FALSE
    /\ durable = <<>>
    /\ progress = <<>>
    /\ result = "none"
    /\ cancel_during = FALSE
    /\ cancel_queued = FALSE

\* ---------------------------------------------- SignalAnalyzer._read_signal
\* The CSV branch. k is the value enumerate() gives the next row, buf the
\* chunk buffer (the local data), out the chunks yielded so far. A yield hands out the buffer
\* as it is at that moment.
RECURSIVE CsvFeed(_, _, _, _, _)
CsvFeed(rows, C, k, buf, out) ==
    IF k >= Len(rows) THEN <<buf, out>>
    ELSE LET row == <<Uint16(rows[k + 1][1]), Uint16(rows[k + 1][2])>>
             d2 == [j \in 1..C |-> IF j = (k % C) + 1 THEN row ELSE buf[j]]
             o2 == IF k > 0 /\ k % C = 0 THEN Append(out, d2) ELSE out
         IN  CsvFeed(rows, C, k + 1, d2, o2)

ReadSignalCsv(rows, C) ==
    LET fed == CsvFeed(rows, C, 0, [j \in 1..C |-> <<0, 0>>], <<>>)
        \* i = 0 before the loop; after it, the index of the last row
        i == IF Len(rows) = 0 THEN 0 ELSE Len(rows) - 1
    IN  IF i % C # 0 THEN Append(fed[2], SubSeq(fed[1], 1, i % C)) ELSE fed[2]

\* np.memmap(path, dtype=np.int16) reshaped to (n // 2, 2): the file's rows,
\* every 16-bit cell read as a signed integer.
Memmap(rows) == [j \in 1..Len(rows) |-> <<Int16(rows[j][1]), Int16(rows[j][2])>>]

\* A slice bound as Python resolves it on n rows: a negative bound counts
\* from the end, and the result is clipped to 0..n.
SliceBound(i, n) == IF i < 0 THEN Max(i + n, 0) ELSE Min(i, n)

\* signal[a:b, :]: the rows from bound a up to, not including, bound b.
Slice(signal, a, b) ==
    SubSeq(signal, SliceBound(a, Len(signal)) + 1, SliceBound(b, Len(signal)))

\* range(0, n, step) as a sequence.
Range(n, step) == [k \in 1..((n + step - 1) \div step) |-> (k - 1) * step]

\* ReadSignalNpy with the strides stopping at the last full chunk: the
\* remainder of the file is never yielded.
ReadSignalNpy_NoRemainder(rows, C) ==
    LET signal == Memmap(rows)
    IN  [k \in 1..(Len(signal) \div C) |->
            LET part == Slice(signal, (k - 1) * C, k * C)
            IN  [j \in 1..Len(part) |-> Float64Row(part[j])]]

\* The binary branch: one chunk per chunk_start in range(0, max_x, C).
ReadSignalNpy(rows, C) ==
    LET signal == Memmap(rows)
        starts == Range(Len(signal), C)
    IN  [k \in 1..Len(starts) |->
            LET part == Slice(signal, starts[k], starts[k] + C)
            IN  [j \in 1..Len(part) |-> Float64Row(part[j])]]

\* _read_signal without the check of lines 50-53: a path that is no file is
\* read as the CSV file.
ReadSignal_NoPathCheck(path, C) ==
    CASE path = "npy" -> ReadSignalNpy(npy_rows, C)
      [] OTHER -> ReadSignalCsv(csv_rows, C)

\* The chunk sequence of _read_signal(C) for a path of the given kind.
ReadSignal(path, C) ==
    CASE path = "csv" -> ReadSignalCsv(csv_rows, C)
      [] path = "npy" -> ReadSignalNpy(npy_rows, C)
      [] OTHER -> <<>>

\* max_x after _read_signal has run: the binary branch alone sets it.
MaxXAfterRead(path) == IF path = "npy" THEN Len(Memmap(npy_rows)) ELSE max_x

\* ------------------------------------------- SignalAnalyzer._read_signal_at
\* ReadSignalAtNpy without the padding branch: a request that passes the end
\* of the file gets the rows that exist and nothing else.
ReadSignalAtNpy_NoPad(rows, start_x, end_x) ==
    LET part == Slice(Memmap(rows), start_x, end_x)
    IN  [j \in 1..Len(part) |-> Float64Row(part[j])]

\* y_array[: self.max_x - start_x] = signal[start_x:, :] on line 109: the rows
\* it copies and the slots it fills.
PadSource(rows, start_x) == Slice(Memmap(rows), start_x, Len(Memmap(rows)))
PadTarget(rows, start_x, end_x) == Min(end_x - start_x, Len(Memmap(rows)) - start_x)

\* Line 109 raises ValueError when the rows cannot be broadcast to the slots:
\* their number differs and is not 1. It cannot happen for start_x >= 0.
ReadSignalAtRaises(rows, start_x, end_x) ==
    LET m == Len(Memmap(rows))
    IN  /\ ~(end_x < m)
        /\ start_x < m
        /\ Len(PadSource(rows, start_x)) # PadTarget(rows, start_x, end_x)
        /\ Len(PadSource(rows, start_x)) # 1

ReadSignalAtNpy(rows, start_x, end_x) ==
    LET signal == Memmap(rows)
        m == Len(signal)
        n == end_x - start_x
    IN  IF end_x < m
        THEN LET part == Slice(signal, start_x, end_x)
             IN  [j \in 1..Len(part) |-> Float64Row(part[j])]
        ELSE IF start_x < m
        THEN LET part == PadSource(rows, start_x)
                 slots == PadTarget(rows, start_x, end_x)
             IN  [j \in 1..n |->
                    IF j > slots THEN NaNRow
                    ELSE IF Len(part) = 1 THEN Float64Row(part[1])
                    ELSE Float64Row(part[j])]
        ELSE NaNRows(n)

ReadSignalAt(path, start_x, end_x) ==
    IF path = "npy" THEN ReadSignalAtNpy(npy_rows, start_x, end_x)
    ELSE NaNRows(end_x - start_x)

\* max_x after _read_signal_at has run.
MaxXAfterReadAt(path) == IF path = "npy" THEN Len(Memmap(npy_rows)) ELSE max_x

\* ================================================================ SpecRead
\* The readers applied to every file and argument within the bounds.
ReadIdle ==
    /\ rd_call = <<"none">>
    /\ chunks = <<>>
    /\ window = <<>>

InitRead ==
    /\ AnalyzerInit
    /\ ReadIdle
    /\ ConverterInit
    /\ has_cb = FALSE
    /\ TaskInit
    /\ WidgetInit
    /\ source_exists = TRUE
    /\ \/ csv_rows \in CsvFiles /\ npy_rows = <<>>
       \/ csv_rows = <<>> /\ npy_rows \in NpyFiles

\* for chunk in self._read_signal(C), run to exhaustion
DrainReadSignal ==
    \E p \in {"none", "csv", "npy", "other"}, C \in 1..MaxChunk :
        /\ (p = "csv") => (npy_rows = <<>>)
        /\ (p = "npy") => (csv_rows = <<>>)
        /\ signal_path' = p
        /\ chunks' = ReadSignal(p, C)
        /\ max_x' = MaxXAfterRead(p)
        /\ rd_call' = <<"read_signal", p, C>>
        /\ window' = <<>>
        /\ UNCHANGED <<filevars, running, x, x_array, y_array, y_min, y_max>>
        /\ UNCHANGED <<convvars, taskvars, rendervars, widgetvars>>

CallReadSignalAt ==
    \E p \in {"none", "csv", "npy", "other"},
       s \in 0..(MaxRows + MaxBeyond), e \in 1..(MaxRows + MaxBeyond) :
        /\ s < e
        /\ (p = "csv") => (npy_rows = <<>>)
        /\ (p = "npy") => (csv_rows = <<>>)
        /\ signal_path' = p
        /\ window' = ReadSignalAt(p, s, e)
        /\ max_x' = MaxXAfterReadAt(p)
        /\ rd_call' = <<"read_signal_at", p, s, e>>
        /\ chunks' = <<>>
        /\ UNCHANGED <<filevars, running, x, x_array, y_array, y_min, y_max>>
        /\ UNCHANGED <<convvars, taskvars, rendervars, widgetvars>>

NextRead == DrainReadSignal \/ CallReadSignalAt

SpecRead == InitRead /\ [][NextRead]_vars

\* ------------------------------------------------------- claims on SpecRead
RECURSIVE Concat(_)
Concat(ss) == IF ss = <<>> THEN <<>> ELSE Head(ss) \o Concat(Tail(ss))

\* cs cuts rows into chunks of C rows, the last one possibly shorter, none empty.
IsChunkingOf(cs, rows, C) ==
    /\ Concat(cs) = rows
    /\ \A k \in 1..Len(cs) :
        /\ Len(cs[k]) > 0
        /\ (k < Len(cs)) => (Len(cs[k]) = C)

ReadCsvDone == rd_call[1] = "read_signal" /\ rd_call[2] = "csv"
ReadNpyDone == rd_call[1] = "read_signal" /\ rd_call[2] = "npy"
ReadAtNpyDone == rd_call[1] = "read_signal_at" /\ rd_call[2] = "npy"

\* C1: the chunks _read_signal(C) yields for a CSV file of L data rows are,
\* concatenated in yield order, exactly the L rows in file order; every chunk
\* but the last has C rows and none is empty.
C1_CsvChunksAreTheRows ==
    ReadCsvDone => IsChunkingOf(chunks, csv_rows, rd_call[3])

\* C2: the chunks _read_signal(C) yields for a binary file of L rows are
\* ceil(L/C) chunks that concatenate to rows 0..L-1; every chunk but the last
\* has C rows, the last has L - C*(ceil(L/C)-1) rows, and L = 0 yields nothing.
C2_NpyChunksAreTheRows ==
    ReadNpyDone =>
        LET C == rd_call[3]
            L == Len(npy_rows)
            n == (L + C - 1) \div C
        IN  /\ Len(chunks) = n
            /\ IsChunkingOf(chunks, npy_rows, C)
            /\ (n > 0) => (Len(chunks[n]) = L - C * (n - 1))
            /\ (L = 0) => (chunks = <<>>)

\* A binary file whose last chunk is a shorter remainder has been read.
C2_Witness ==
    /\ ReadNpyDone
    /\ Len(npy_rows) = 3
    /\ rd_call[3] = 2
    /\ chunks = << <<npy_rows[1], npy_rows[2]>>, <<npy_rows[3]>> >>

\* C3: _read_signal_at(start, end) on a binary file of R rows returns
\* end - start rows: position j holds the file's row start + j when that row
\* exists and a missing marker when it does not, so the real rows come first,
\* none is missing when end <= R and all are missing when start >= R.
C3_WindowRealThenMissing ==
    ReadAtNpyDone =>
        LET s == rd_call[3]
            e == rd_call[4]
            R == Len(npy_rows)
        IN  /\ Len(window) = e - s
            /\ \A j \in 1..Len(window) :
                IF s + j <= R THEN window[j] = npy_rows[s + j] /\ window[j] # NaNRow
                ELSE window[j] = NaNRow

\* A request that straddles the end of the file: real rows, then missing ones.
C3_Witness ==
    /\ ReadAtNpyDone
    /\ Len(npy_rows) = 3
    /\ rd_call[3] = 2 /\ rd_call[4] = 5
    /\ window = <<npy_rows[3], NaNRow, NaNRow>>

\* ================================================================ SpecConv
\* One SignalConverter.start(source, target, progress_callback) on a worker
\* thread, and cancel() called from the GUI thread at any moment. A CSV row is
\* what csv.reader gives for a line: <<>> for a blank line, else two fields,
\* each the number the text denotes or BadField for text that is no number.
BadField == -999999

IsBlank(row) == Len(row) = 0
IsMalformed(row) == \E f \in 1..Len(row) : row[f] = BadField
FitsInt16(row) == \A f \in 1..Len(row) : row[f] >= -32768 /\ row[f] <= 32767

\* The source scales: progress every 50000 rows, flush every 50000 * 60 rows.
ProgressEvery == 2
FlushEvery == 4

ConvRows == {<<1, 2>>, <<3, 40000>>, <<>>, <<BadField, 4>>}
ConvCsvFiles == SeqsUpTo(ConvRows, MaxRows)

\* The non-blank rows of a CSV, in file order: what the Counting phase counts.
RECURSIVE NonBlank(_)
NonBlank(rows) ==
    IF rows = <<>> THEN <<>>
    ELSE IF IsBlank(Head(rows)) THEN NonBlank(Tail(rows))
    ELSE <<Head(rows)>> \o NonBlank(Tail(rows))

\* data[index, :] = row on an int16 array.
StoreRow(arr, index, row) ==
    [j \in 1..Len(arr) |-> IF j = index + 1 THEN <<Int16(row[1]), Int16(row[2])>>
                           ELSE arr[j]]

\* The share of the rows still to write, instead of the share written
Percent_Remaining(index, rc) == ((rc - index) * 100) \div rc

\* (index / row_count) * 100, delivered through Signal(int).
Percent(index, rc) == (index * 100) \div rc

\* return True ignoring the flag
ReturnValue_AlwaysTrue(flag) == TRUE

\* return not self.cancelled
ReturnValue(flag) == ~flag

ConvRunning == c_pc \in {"count", "write", "finish", "tail", "return"}

InitConv ==
    /\ AnalyzerInit
    /\ ReadIdle
    /\ ConverterInit
    /\ has_cb \in BOOLEAN
    /\ TaskInit
    /\ WidgetInit
    /\ \/ source_exists = TRUE /\ csv_rows \in ConvCsvFiles
       \/ source_exists = FALSE /\ csv_rows = <<>>
    /\ npy_rows = <<>>

\* cancel(), from the GUI thread
Cancel ==
    /\ cancelled' = TRUE
    /\ cancel_during' = (cancel_during \/ ConvRunning)
    /\ cancel_queued' = (cancel_queued \/ c_pc = "queued")
    /\ UNCHANGED <<c_pc, has_cb, row_count, c_pos, data, target_exists, durable,
                   progress, result>>
    /\ UNCHANGED <<filevars, fieldvars, readvars, taskvars, rendervars, widgetvars>>

\* Worker(converter.start, ...) is handed to the thread pool, with the
\* dialog's canceled signal connected to converter.cancel before that.
file_convert_action ==
    /\ c_pc = "idle"
    /\ c_pc' = "queued"
    /\ UNCHANGED <<cancelled, has_cb, row_count, c_pos, data, target_exists,
                   durable, progress, result, cancel_during, cancel_queued>>
    /\ UNCHANGED <<filevars, fieldvars, readvars, taskvars, rendervars, widgetvars>>

\* lines 36-44 on a source path that names no file: reset the flag, emit 0,
\* and source_signal_path.open() raises; nothing handles it.
ConvStartRaises ==
    /\ c_pc = "queued"
    /\ ~source_exists
    /\ cancelled' = FALSE
    /\ progress' = IF has_cb THEN <<0>> ELSE <<>>
    /\ result' = "FileNotFoundError"
    /\ c_pc' = "raised"
    /\ UNCHANGED <<has_cb, row_count, c_pos, data, target_exists, durable,
                   cancel_during, cancel_queued>>
    /\ UNCHANGED <<filevars, fieldvars, readvars, taskvars, rendervars, widgetvars>>

\* lines 36-46: reset the flag, emit 0, open the source, skip the header
ConvStart ==
    /\ c_pc = "queued"
    /\ source_exists
    /\ cancelled' = FALSE
    /\ progress' = IF has_cb THEN <<0>> ELSE <<>>
    /\ row_count' = 0
    /\ c_pos' = 0
    /\ c_pc' = "count"
    /\ UNCHANGED <<has_cb, data, target_exists, durable, result, cancel_during, cancel_queued>>
    /\ UNCHANGED <<filevars, fieldvars, readvars, taskvars, rendervars, widgetvars>>

\* lines 47-54: one row of the Counting loop
ConvCountRow ==
    /\ c_pc = "count"
    /\ c_pos < Len(csv_rows)
    /\ LET row == csv_rows[c_pos + 1]
       IN  /\ c_pos' = c_pos + 1
           /\ IF IsBlank(row)
              THEN UNCHANGED <<row_count, c_pc, result>>
              ELSE /\ row_count' = row_count + 1
                   /\ IF cancelled
                      THEN c_pc' = "done" /\ result' = "False"
                      ELSE UNCHANGED <<c_pc, result>>
    /\ UNCHANGED <<cancelled, has_cb, data, target_exists, durable, progress,
                   cancel_during, cancel_queued>>
    /\ UNCHANGED <<filevars, fieldvars, readvars, taskvars, rendervars, widgetvars>>

\* lines 61-68: np.memmap(target, mode='w+', shape=(row_count, 2)); reopen the
\* source and skip the header
ConvCreateTarget ==
    /\ c_pc = "count"
    /\ c_pos = Len(csv_rows)
    /\ data' = [j \in 1..row_count |-> <<0, 0>>]
    /\ target_exists' = TRUE
    /\ c_pos' = 0
    /\ c_pc' = "write"
    /\ UNCHANGED <<cancelled, has_cb, row_count, durable, progress, result,
                   cancel_during, cancel_queued>>
    /\ UNCHANGED <<filevars, fieldvars, readvars, taskvars, rendervars, widgetvars>>

\* lines 69-71: a blank line of the Writing loop
ConvSkipBlank ==
    /\ c_pc = "write"
    /\ c_pos < Len(csv_rows)
    /\ IsBlank(csv_rows[c_pos + 1])
    /\ c_pos' = c_pos + 1
    /\ UNCHANGED <<cancelled, c_pc, has_cb, row_count, data, target_exists,
                   durable, progress, result, cancel_during, cancel_queued>>
    /\ UNCHANGED <<filevars, fieldvars, readvars, taskvars, rendervars, widgetvars>>

\* lines 72-83: one data row of the Writing loop, stored without error
ConvWriteRow ==
    /\ c_pc = "write"
    /\ c_pos < Len(csv_rows)
    /\ LET index == c_pos
           row == csv_rows[c_pos + 1]
           stored == StoreRow(data, index, row)
       IN  /\ ~IsBlank(row)
           /\ index < row_count
           /\ ~IsMalformed(row)
           /\ c_pos' = c_pos + 1
           /\ durable' = IF index % FlushEvery = 0 THEN stored ELSE durable
           /\ progress' = IF has_cb /\ index % ProgressEvery = 0
                          THEN Append(progress, Percent(index, row_count))
                          ELSE progress
           /\ IF cancelled
              THEN \* del data; target_signal_path.unlink(); return False
                   /\ data' = <<>>
                   /\ target_exists' = FALSE
                   /\ c_pc' = "done"
                   /\ result' = "False"
              ELSE /\ data' = stored
                   /\ UNCHANGED <<target_exists, c_pc, result>>
    /\ UNCHANGED <<cancelled, has_cb, row_count, cancel_during, cancel_queued>>
    /\ UNCHANGED <<filevars, fieldvars, readvars, taskvars, rendervars, widgetvars>>

\* line 72 raising: IndexError for a row index beyond the preallocated array,
\* ValueError for a field that is no number, and, with a numpy that refuses
\* out-of-range integers, OverflowError for a value no int16 holds. The
\* exception leaves start() at once; nothing handles it.
ConvWriteRaises ==
    /\ c_pc = "write"
    /\ c_pos < Len(csv_rows)
    /\ LET index == c_pos
           row == csv_rows[c_pos + 1]
       IN  /\ ~IsBlank(row)
           /\ \/ index >= row_count /\ result' = "IndexError"
              \/ index < row_count /\ IsMalformed(row) /\ result' = "ValueError"
              \/ /\ index < row_count
                 /\ ~IsMalformed(row)
                 /\ ~FitsInt16(row)
                 /\ result' = "OverflowError"
    /\ c_pc' = "raised"
    /\ UNCHANGED <<cancelled, has_cb, row_count, c_pos, data, target_exists,
                   durable, progress, cancel_during, cancel_queued>>
    /\ UNCHANGED <<filevars, fieldvars, readvars, taskvars, rendervars, widgetvars>>

\* lines 85-88: the final flush, then emit 100 unless cancelled
ConvFinish ==
    /\ c_pc = "write"
    /\ c_pos = Len(csv_rows)
    /\ durable' = data
    /\ progress' = IF ~cancelled /\ has_cb THEN Append(progress, 100) ELSE progress
    /\ c_pc' = "tail"
    /\ UNCHANGED <<cancelled, has_cb, row_count, c_pos, data, target_exists,
                   result, cancel_during, cancel_queued>>
    /\ UNCHANGED <<filevars, fieldvars, readvars, taskvars, rendervars, widgetvars>>

\* lines 89-92: if self.cancelled and progress_callback: delete, emit 0
ConvTail ==
    /\ c_pc = "tail"
    /\ IF cancelled /\ has_cb
       THEN /\ data' = <<>>
            /\ target_exists' = FALSE
            /\ progress' = Append(progress, 0)
       ELSE UNCHANGED <<data, target_exists, progress>>
    /\ c_pc' = "return"
    /\ UNCHANGED <<cancelled, has_cb, row_count, c_pos, durable, result,
                   cancel_during, cancel_queued>>
    /\ UNCHANGED <<filevars, fieldvars, readvars, taskvars, rendervars, widgetvars>>

\* line 94
ConvReturn ==
    /\ c_pc = "return"
    /\ result' = IF ReturnValue(cancelled) THEN "True" ELSE "False"
    /\ c_pc' = "done"
    /\ UNCHANGED <<cancelled, has_cb, row_count, c_pos, data, target_exists,
                   durable, progress, cancel_during, cancel_queued>>
    /\ UNCHANGED <<filevars, fieldvars, readvars, taskvars, rendervars, widgetvars>>

NextConv ==
    \/ Cancel
    \/ file_convert_action
    \/ ConvStartRaises
    \/ ConvStart
    \/ ConvCountRow
    \/ ConvCreateTarget
    \/ ConvSkipBlank
    \/ ConvWriteRow
    \/ ConvWriteRaises
    \/ ConvFinish
    \/ ConvTail
    \/ ConvReturn

SpecConv == InitConv /\ [][NextConv]_vars

\* ------------------------------------------------------- claims on SpecConv
\* C4: if cancel() is called after start() has reset the flag and before
\* start() returns, with or without a progress_callback, start() returns False
\* and the target path does not exist when it returns.
C4_CancelLeavesNoTarget ==
    (c_pc = "done" /\ cancel_during) => (result = "False" /\ ~target_exists)

\* C5: when start() ends with an error raised in the Writing phase (a
\* malformed row, an index or I/O error), no target file remains on disk.
C5_ErrorLeavesNoTarget ==
    (c_pc = "raised") => ~target_exists

\* The rows as an int16 array holds them.
StoredRows(rows) == [k \in 1..Len(rows) |-> <<Int16(rows[k][1]), Int16(rows[k][2])>>]

\* C6: start() returns True only if cancel() was never called between the
\* reset and the return; and then both phases ran to the end of the CSV, the
\* target exists and holds every counted data row, the final flush was made,
\* and the last progress value emitted is 100.
C6_TrueOnlyWhenComplete ==
    (result = "True") =>
        /\ ~cancel_during
        /\ c_pos = Len(csv_rows)
        /\ row_count = Len(NonBlank(csv_rows))
        /\ target_exists
        /\ data = StoredRows(NonBlank(csv_rows))
        /\ durable = data
        /\ has_cb => (progress # <<>> /\ progress[Len(progress)] = 100)

\* A conversion of several rows, with a progress_callback, that succeeded.
C6_Witness ==
    /\ result = "True"
    /\ has_cb
    /\ row_count >= 2
    /\ Len(csv_rows) > row_count
    /\ Len(progress) >= 3

\* C7: after a successful conversion of a CSV of N data rows with fields in
\* 0..65535, rows [0, N) of the target read with _read_signal_at are, row by
\* row and channel by channel, the integers of the CSV.
C7_RoundTrip ==
    (result = "True") =>
        ReadSignalAtNpy(data, 0, row_count)
            = [k \in 1..row_count |-> NonBlank(csv_rows)[k]]

\* C16: within one start() call, under every interleaving with cancel(), the
\* values emitted on progress_callback are non-decreasing and each lies in
\* 0..100.
C16_ProgressMonotone ==
    /\ \A i \in 1..Len(progress) : progress[i] \in 0..100
    /\ \A i \in 1..(Len(progress) - 1) : progress[i] <= progress[i + 1]

\* C16 as amended: every value lies in 0..100 and the values are
\* non-decreasing, except that the last value of a call may be the 0 that
\* start() emits when it finds the flag set after the Writing loop.
C16_ProgressMonotoneUntilReset ==
    /\ \A i \in 1..Len(progress) : progress[i] \in 0..100
    /\ \A i \in 1..(Len(progress) - 1) :
          \/ progress[i] <= progress[i + 1]
          \/ /\ i + 1 = Len(progress)
             /\ progress[i + 1] = 0
             /\ cancel_during
             /\ c_pc \in {"return", "done"}
             /\ c_pos = Len(csv_rows)

\* cancel() came after 100 had been emitted: the call ends its sequence with 0.
C16_Witness ==
    /\ c_pc = "done"
    /\ Len(progress) >= 4
    /\ progress[Len(progress) - 1] = 100
    /\ progress[Len(progress)] = 0

\* C25: in the Writing phase the k-th data row of the CSV, k counted from 0
\* over the non-blank rows the Counting phase counted, is written to row k of
\* the preallocated target, also when blank lines stand between or after data
\* rows; and no write index reaches row_count.
C25_RowsAtTheirIndex ==
    /\ result # "IndexError"
    /\ (c_pc = "write") =>
          LET nb == NonBlank(SubSeq(csv_rows, 1, c_pos))
          IN  \A k \in 1..Len(nb) :
                  k <= Len(data) /\ data[k] = StoredRows(nb)[k]

\* C26: a cancel() made after the conversion Worker was handed to the thread
\* pool and before its thread began start() is honoured: the conversion
\* reports non-success and leaves no target file.
C26_QueuedCancelHonoured ==
    (c_pc = "done" /\ cancel_queued) => (result = "False" /\ ~target_exists)

\* ================================================================== SpecAn
\* One SignalAnalyzer, as SignalAppWidget drives it: start(), current_window(),
\* previous_window() and next_window() are each run by a Worker on a pool
\* thread with both chart signals passed, the chart slots run on the GUI
\* thread, and stop() is called from the GUI thread at any moment. SpecAn has
\* one pool thread, so the methods run one at a time.

\* np.roll(arr, -n)
Roll(arr, n) ==
    IF Len(arr) = 0 THEN arr
    ELSE [j \in 1..Len(arr) |-> arr[((j - 1 + n) % Len(arr)) + 1]]

\* arr[-n:] = vals raises ValueError when vals cannot be broadcast to the slice.
AssignTailRaises(arr, vals) ==
    /\ Len(vals) # Min(Len(vals), Len(arr))
    /\ Len(vals) # 1

\* arr[-n:] = vals with n = Len(vals) > 0
AssignTail(arr, vals) ==
    LET n == Len(vals)
        first == Max(Len(arr) - n, 0)
    IN  [j \in 1..Len(arr) |->
            IF j <= first THEN arr[j]
            ELSE IF n = 1 THEN vals[1]
            ELSE vals[j - first]]

\* chunk[:, 1]: the second channel
Column1(rows) == [j \in 1..Len(rows) |-> rows[j][2]]

Numbers(arr) == {arr[j] : j \in {k \in 1..Len(arr) : ~IsNaN(arr[k])}}

\* np.nanmin / np.nanmax of a non-empty array: NaN when every entry is NaN.
NanMin(arr) ==
    IF Numbers(arr) = {} THEN NaN
    ELSE CHOOSE v \in Numbers(arr) : \A w \in Numbers(arr) : v <= w
NanMax(arr) ==
    IF Numbers(arr) = {} THEN NaN
    ELSE CHOOSE v \in Numbers(arr) : \A w \in Numbers(arr) : v >= w

\* y_min following the window: the minimum of the current window, whatever
\* the range was before
NewYMin_FollowWindow(cur, arr) == IF IsNaN(NanMin(arr)) THEN cur ELSE NanMin(arr)

\* lines 174 and 230: self.y_min = y_min if (y_min := nanmin) < self.y_min else self.y_min
NewYMin(cur, arr) == IF Lt(NanMin(arr), cur) THEN NanMin(arr) ELSE cur
\* lines 175 and 231
NewYMax(cur, arr) == IF Gt(NanMax(arr), cur) THEN NanMax(arr) ELSE cur

\* arr[::100]; the model takes every VisStep-th entry.
VisStep == 2
Every(arr, step) == [j \in 1..((Len(arr) + step - 1) \div step) |-> arr[(j - 1) * step + 1]]

\* has_previous_window() answering True at the left edge too
has_previous_window_AtZero == x >= 0

has_previous_window == x > 0
has_next_window == x < max_x - window_size

\* ------------------------------------------------- the chart signals
\* A slot call queued for the GUI thread by pool thread t.
Call(kind, t, a, b) == [kind |-> kind, thread |-> t, a |-> a, b |-> b]

RendererKinds == {"set_axis_y", "replace_array"}

\* The renderer calls of thread t the GUI thread has not run yet.
Unhandled(t) ==
    {k \in 1..Len(gui_queue) :
        gui_queue[k].thread = t /\ gui_queue[k].kind \in RendererKinds}

\* The chart signals connected with Qt.QueuedConnection: emit returns at once.
Blocked_Queued(t) == FALSE

\* Qt.BlockingQueuedConnection (signal_app_widget.py 34-35): the emitting
\* thread waits in emit until the GUI thread has run the slot.
Blocked(t) == Unhandled(t) # {}

Bump(n) == Min(n + 1, 2)

\* set_chart_axis_y.emit(lo, hi) by thread t
EmitAxis(t, lo, hi) ==
    /\ gui_queue' = Append(gui_queue, Call("set_axis_y", t, lo, hi))
    /\ run' = [run EXCEPT ![t].axis = Bump(@)]
    /\ UNCHANGED <<last_kind, axis_prev, axis, n_axis, chart>>

\* update_chart.emit(vis_x, vis_y) by thread t
EmitChart(t, vis_x, vis_y) ==
    /\ gui_queue' = Append(gui_queue, Call("replace_array", t, vis_x, vis_y))
    /\ run' = [run EXCEPT ![t].chart = Bump(@)]
    /\ after_stop' = IF a_fn[t] = "start" /\ stop_req THEN Bump(after_stop)
                     ELSE after_stop
    /\ UNCHANGED <<last_kind, axis_prev, axis, n_axis, chart>>

\* SignalWindowChartWidget.set_axis_y, run by the GUI thread
ChartSetAxisY ==
    /\ gui_queue # <<>>
    /\ Head(gui_queue).kind = "set_axis_y"
    /\ axis_prev' = axis
    /\ axis' = <<Head(gui_queue).a, Head(gui_queue).b>>
    /\ n_axis' = Bump(n_axis)
    /\ last_kind' = "set_axis_y"
    /\ gui_queue' = Tail(gui_queue)
    /\ UNCHANGED chart
    /\ UNCHANGED <<filevars, fieldvars, readvars, convvars, taskvars, widgetvars>>

\* SignalWindowChartWidget.replace_array, run by the GUI thread
ChartReplaceArray ==
    /\ gui_queue # <<>>
    /\ Head(gui_queue).kind = "replace_array"
    /\ chart' = <<Head(gui_queue).a, Head(gui_queue).b>>
    /\ last_kind' = "replace_array"
    /\ gui_queue' = Tail(gui_queue)
    /\ UNCHANGED <<axis_prev, axis, n_axis>>
    /\ UNCHANGED <<filevars, fieldvars, readvars, convvars, taskvars, widgetvars>>

\* ------------------------------------------------------------ Worker
\* The paths a Worker may be given: no file, the CSV file, the binary file.
Paths == {"none", "csv", "npy"}

Fns == {"start", "current_window", "previous_window", "next_window"}

\* Where a thread is inside start(), from the call on.
StartPcs == {"invoked", "while", "next", "chart"}

Goto(t, pc) == a_pc' = [a_pc EXCEPT ![t] = pc]

\* Worker(fn, signal_path=p, ...) picked up by the free pool thread t: run()
\* is about to call fn (worker.py 35-48).
RunWorker(t, fn, p, conn) ==
    /\ a_pc[t] = "idle"
    /\ Goto(t, "invoked")
    /\ a_fn' = [a_fn EXCEPT ![t] = fn]
    /\ a_path' = [a_path EXCEPT ![t] = p]
    /\ connected' = [connected EXCEPT ![t] = conn]
    /\ a_result' = [a_result EXCEPT ![t] = "none"]
    /\ w_log' = [w_log EXCEPT ![t] = <<>>]
    /\ run' = [run EXCEPT ![t] = NoCalls]
    /\ stop_req' = IF fn = "start" THEN FALSE ELSE stop_req
    /\ after_stop' = IF fn = "start" THEN 0 ELSE after_stop
    /\ UNCHANGED <<gen_path, gen_pos, vis, iter, start_called>>
    /\ UNCHANGED <<filevars, fieldvars, readvars, convvars, rendervars>>

\* A Worker for any method and path, started on the pool's one thread.
Submit ==
    \E fn \in Fns, p \in Paths :
        /\ RunWorker(1, fn, p, FALSE)
        /\ UNCHANGED widgetvars

\* self.signals.result.emit(None) with every exception turned into a result
OutcomeSignal_AlwaysResult(res) == <<"result", "None">>

\* worker.py 49-54: error with the exception, or result with the return
\* value; the analyzer's methods return None.
OutcomeSignal(res) ==
    IF res = "returned" THEN <<"result", "None">> ELSE <<"error", res>>

\* worker.py 47-54: fn has returned or raised
WorkerOutcome(t) ==
    /\ a_pc[t] = "outcome"
    /\ ~Blocked(t)
    /\ w_log' = [w_log EXCEPT ![t] = Append(@, OutcomeSignal(a_result[t]))]
    /\ Goto(t, "finally")
    /\ UNCHANGED <<a_fn, a_path, connected, gen_path, gen_pos, vis, a_result>>
    /\ UNCHANGED <<filevars, fieldvars, readvars, convvars, ghostvars, rendervars,
                   widgetvars>>

\* worker.py 55-56: finished.emit(); a connected slot is queued for the GUI
\* thread. run() returns: the Worker and the locals of fn are gone and the
\* pool thread is free again.
WorkerFinished(t) ==
    /\ a_pc[t] = "finally"
    /\ w_log' = [w_log EXCEPT ![t] = Append(@, <<"finished">>)]
    /\ gui_queue' = IF connected[t] THEN Append(gui_queue, Call("updated", t, 0, 0))
                    ELSE gui_queue
    /\ Goto(t, "idle")
    /\ a_fn' = [a_fn EXCEPT ![t] = "none"]
    /\ a_path' = [a_path EXCEPT ![t] = "none"]
    /\ connected' = [connected EXCEPT ![t] = FALSE]
    /\ gen_path' = [gen_path EXCEPT ![t] = "none"]
    /\ gen_pos' = [gen_pos EXCEPT ![t] = 0]
    /\ vis' = [vis EXCEPT ![t] = <<>>]
    /\ run' = [run EXCEPT ![t] = NoCalls]
    /\ iter' = IF a_fn[t] = "start" THEN <<>> ELSE iter
    /\ stop_req' = IF a_fn[t] = "start" THEN FALSE ELSE stop_req
    /\ after_stop' = IF a_fn[t] = "start" THEN 0 ELSE after_stop
    /\ UNCHANGED <<a_result, start_called>>
    /\ UNCHANGED <<last_kind, axis_prev, axis, n_axis, chart>>
    /\ UNCHANGED <<filevars, fieldvars, readvars, convvars, widgetvars>>

\* ------------------------------------------------- SignalAnalyzer.start
\* stop(), called on the GUI thread
Stop ==
    /\ running' = FALSE
    /\ stop_req' = (stop_req \/ \E t \in PoolThreads :
                                    a_fn[t] = "start" /\ a_pc[t] \in StartPcs)
    /\ UNCHANGED <<signal_path, x, max_x, x_array, y_array, y_min, y_max>>
    /\ UNCHANGED <<run, iter, start_called, after_stop>>
    /\ UNCHANGED <<filevars, readvars, convvars, workervars, rendervars, widgetvars>>

\* lines 151-152: start(signal_path, ...) up to the end of _start
StartCall(t) ==
    /\ a_pc[t] = "invoked"
    /\ a_fn[t] = "start"
    /\ signal_path' = a_path[t]
    /\ running' = TRUE
    /\ EmitAxis(t, y_min, y_max)
    /\ Goto(t, "while")
    /\ start_called' = TRUE
    /\ UNCHANGED <<x, max_x, x_array, y_array, y_min, y_max>>
    /\ UNCHANGED <<a_fn, a_path, connected, gen_path, gen_pos, vis, a_result, w_log>>
    /\ UNCHANGED <<iter, stop_req, after_stop>>
    /\ UNCHANGED <<filevars, readvars, convvars, widgetvars>>

\* lines 154-158: while self.running: reset x and make the generator
StartWhile(t) ==
    /\ a_pc[t] = "while"
    /\ ~Blocked(t)
    /\ IF running
       THEN /\ x' = -window_size
            /\ gen_pos' = [gen_pos EXCEPT ![t] = 0]
            /\ Goto(t, "next")
            /\ run' = [run EXCEPT ![t].passes = Bump(@)]
            /\ UNCHANGED a_result
       ELSE /\ Goto(t, "outcome")
            /\ a_result' = [a_result EXCEPT ![t] = "returned"]
            /\ UNCHANGED <<x, gen_pos, run>>
    /\ UNCHANGED <<signal_path, running, max_x, x_array, y_array, y_min, y_max>>
    /\ UNCHANGED <<a_fn, a_path, connected, gen_path, vis, w_log>>
    /\ UNCHANGED <<iter, start_called, stop_req, after_stop>>
    /\ UNCHANGED <<filevars, readvars, convvars, rendervars, widgetvars>>

\* The path the generator of thread t reads: self.signal_path as it is when
\* the generator's body starts, at the first next().
GenPath(t) == IF gen_pos[t] = 0 THEN signal_path ELSE gen_path[t]

\* The chunks the generator of this pass yields.
PassChunks(t) == ReadSignal(GenPath(t), chunk_size)

\* start() going round the while loop whatever the pass did
AfterPass_KeepRunning(r) == r

\* line 201: self.running = False
AfterPass(r) == FALSE

\* lines 158-165 and 201: the generator is exhausted, or it yields and running
\* is found False; either way the for loop ends and line 201 runs.
StartLoopEnds(t) ==
    /\ a_pc[t] = "next"
    /\ ~Blocked(t)
    /\ gen_pos[t] >= Len(PassChunks(t)) \/ ~running
    /\ max_x' = MaxXAfterRead(GenPath(t))
    /\ gen_path' = [gen_path EXCEPT ![t] = GenPath(t)]
    /\ running' = AfterPass(running)
    /\ Goto(t, "while")
    /\ UNCHANGED <<signal_path, x, x_array, y_array, y_min, y_max>>
    /\ UNCHANGED <<a_fn, a_path, connected, gen_pos, vis, a_result, w_log>>
    /\ UNCHANGED <<filevars, readvars, convvars, ghostvars, rendervars, widgetvars>>

\* lines 158-186: one chunk taken into the window, up to the y-range emit
StartIteration(t) ==
    /\ a_pc[t] = "next"
    /\ ~Blocked(t)
    /\ gen_pos[t] < Len(PassChunks(t))
    /\ running
    /\ LET chunk == PassChunks(t)[gen_pos[t] + 1]
           n == Len(chunk)
           rolled == Roll(y_array, n)
           shifted == AssignTail(rolled, Column1(chunk))
       IN  /\ ~AssignTailRaises(rolled, Column1(chunk))
           /\ Len(shifted) > 0
           /\ max_x' = MaxXAfterRead(GenPath(t))
           /\ x_array' = Scaled(Linspace(x, window_size))
           /\ y_array' = shifted
           /\ x' = x + n
           /\ y_min' = NewYMin(y_min, shifted)
           /\ y_max' = NewYMax(y_max, shifted)
           /\ vis' = [vis EXCEPT ![t] = <<Every(x_array', VisStep), Every(shifted, VisStep)>>]
           /\ iter' = [len_before |-> Len(y_array), x_before |-> x, taken |-> n]
           /\ EmitAxis(t, y_min', y_max')
    /\ gen_path' = [gen_path EXCEPT ![t] = GenPath(t)]
    /\ gen_pos' = [gen_pos EXCEPT ![t] = @ + 1]
    /\ Goto(t, "chart")
    /\ UNCHANGED <<signal_path, running>>
    /\ UNCHANGED <<a_fn, a_path, connected, a_result, w_log>>
    /\ UNCHANGED <<start_called, stop_req, after_stop>>
    /\ UNCHANGED <<filevars, readvars, convvars, widgetvars>>

\* lines 170 and 174 raising ValueError: the chunk does not fit the window
\* array, or the window array is empty and has no minimum. The exception
\* leaves start() at once: line 201 does not run.
StartIterationRaises(t) ==
    /\ a_pc[t] = "next"
    /\ ~Blocked(t)
    /\ gen_pos[t] < Len(PassChunks(t))
    /\ running
    /\ LET chunk == PassChunks(t)[gen_pos[t] + 1]
           n == Len(chunk)
           rolled == Roll(y_array, n)
           shifted == AssignTail(rolled, Column1(chunk))
       IN  /\ max_x' = MaxXAfterRead(GenPath(t))
           /\ x_array' = Scaled(Linspace(x, window_size))
           /\ iter' = [len_before |-> Len(y_array), x_before |-> x, taken |-> n]
           /\ \/ /\ AssignTailRaises(rolled, Column1(chunk))
                 /\ y_array' = rolled
                 /\ UNCHANGED x
              \/ /\ ~AssignTailRaises(rolled, Column1(chunk))
                 /\ Len(shifted) = 0
                 /\ y_array' = shifted
                 /\ x' = x + n
    /\ gen_path' = [gen_path EXCEPT ![t] = GenPath(t)]
    /\ gen_pos' = [gen_pos EXCEPT ![t] = @ + 1]
    /\ Goto(t, "outcome")
    /\ a_result' = [a_result EXCEPT ![t] = "ValueError"]
    /\ UNCHANGED <<signal_path, running, y_min, y_max>>
    /\ UNCHANGED <<a_fn, a_path, connected, vis, w_log>>
    /\ UNCHANGED <<run, start_called, stop_req, after_stop>>
    /\ UNCHANGED <<filevars, readvars, convvars, rendervars, widgetvars>>

\* lines 188-198: update_chart.emit(vis_x, vis_y) and the end of the iteration
StartEmitChart(t) ==
    /\ a_pc[t] = "chart"
    /\ ~Blocked(t)
    /\ EmitChart(t, vis[t][1], vis[t][2])
    /\ vis' = [vis EXCEPT ![t] = <<>>]
    /\ Goto(t, "next")
    /\ UNCHANGED <<a_fn, a_path, connected, gen_path, gen_pos, a_result, w_log>>
    /\ UNCHANGED <<iter, start_called, stop_req>>
    /\ UNCHANGED <<filevars, fieldvars, readvars, convvars, widgetvars>>

\* ------------------------------------------- SignalAnalyzer.load_window
\* current_window / previous_window / next_window up to the first emit of
\* load_window (lines 219-221); new_x is the cursor the method sets.
WindowCall(t, fn, new_x) ==
    /\ a_pc[t] = "invoked"
    /\ a_fn[t] = fn
    /\ x' = new_x
    /\ signal_path' = a_path[t]
    /\ gui_queue' = Append(gui_queue, Call("set_axis_y", t, y_min, y_max))
    /\ run' = [run EXCEPT ![t] = [passes |-> @.passes,
                                  axis |-> Bump(@.axis),
                                  chart |-> @.chart,
                                  x_before |-> x,
                                  max_x_before |-> max_x,
                                  had_previous |-> has_previous_window,
                                  had_next |-> has_next_window]]
    /\ UNCHANGED <<last_kind, axis_prev, axis, n_axis, chart>>
    /\ Goto(t, "load")
    /\ UNCHANGED <<running, max_x, x_array, y_array, y_min, y_max>>
    /\ UNCHANGED <<a_fn, a_path, connected, gen_path, gen_pos, vis, a_result, w_log>>
    /\ UNCHANGED <<iter, start_called, stop_req, after_stop>>
    /\ UNCHANGED <<filevars, readvars, convvars, widgetvars>>

\* lines 246-255
CurrentWindow(t) == WindowCall(t, "current_window", x)
\* lines 257-267
PreviousWindow(t) ==
    WindowCall(t, "previous_window", IF x > window_size THEN x - window_size ELSE 0)
\* lines 269-279
NextWindow(t) ==
    WindowCall(t, "next_window",
               IF max_x > x + window_size THEN x + window_size ELSE x)

\* lines 223-239: read the window, widen the range, emit it
LoadWindowRead(t) ==
    /\ a_pc[t] = "load"
    /\ ~Blocked(t)
    /\ LET rows == ReadSignalAt(signal_path, x, x + window_size)
           ys == Column1(rows)
       IN  /\ ~(signal_path = "npy" /\ ReadSignalAtRaises(npy_rows, x, x + window_size))
           /\ Len(ys) > 0
           /\ max_x' = MaxXAfterReadAt(signal_path)
           /\ x_array' = Scaled(Linspace(x, window_size))
           /\ y_array' = ys
           /\ y_min' = NewYMin(y_min, ys)
           /\ y_max' = NewYMax(y_max, ys)
           /\ vis' = [vis EXCEPT ![t] = <<Every(x_array', VisStep), Every(ys, VisStep)>>]
           /\ EmitAxis(t, y_min', y_max')
    /\ Goto(t, "load_chart")
    /\ UNCHANGED <<signal_path, running, x>>
    /\ UNCHANGED <<a_fn, a_path, connected, gen_path, gen_pos, a_result, w_log>>
    /\ UNCHANGED <<iter, start_called, stop_req, after_stop>>
    /\ UNCHANGED <<filevars, readvars, convvars, widgetvars>>

\* line 109 or line 230 raising ValueError: the rows past a negative start do
\* not fit the slots, or the slice is empty and has no minimum.
LoadWindowRaises(t) ==
    /\ a_pc[t] = "load"
    /\ ~Blocked(t)
    /\ LET rows == ReadSignalAt(signal_path, x, x + window_size)
           ys == Column1(rows)
       IN  /\ max_x' = MaxXAfterReadAt(signal_path)
           /\ \/ /\ signal_path = "npy"
                 /\ ReadSignalAtRaises(npy_rows, x, x + window_size)
                 /\ UNCHANGED <<x_array, y_array>>
              \/ /\ ~(signal_path = "npy" /\ ReadSignalAtRaises(npy_rows, x, x + window_size))
                 /\ Len(ys) = 0
                 /\ x_array' = Scaled(Linspace(x, window_size))
                 /\ y_array' = ys
    /\ Goto(t, "outcome")
    /\ a_result' = [a_result EXCEPT ![t] = "ValueError"]
    /\ UNCHANGED <<signal_path, running, x, y_min, y_max>>
    /\ UNCHANGED <<a_fn, a_path, connected, gen_path, gen_pos, vis, w_log>>
    /\ UNCHANGED <<filevars, readvars, convvars, ghostvars, rendervars, widgetvars>>

\* lines 241-242: update_chart.emit(vis_x, vis_y); load_window returns
LoadWindowEmitChart(t) ==
    /\ a_pc[t] = "load_chart"
    /\ ~Blocked(t)
    /\ EmitChart(t, vis[t][1], vis[t][2])
    /\ vis' = [vis EXCEPT ![t] = <<>>]
    /\ Goto(t, "outcome")
    /\ a_result' = [a_result EXCEPT ![t] = "returned"]
    /\ UNCHANGED <<a_fn, a_path, connected, gen_path, gen_pos, w_log>>
    /\ UNCHANGED <<iter, start_called, stop_req>>
    /\ UNCHANGED <<filevars, fieldvars, readvars, convvars, widgetvars>>

\* What a pool thread does with the Worker it runs.
WorkerStep(t) ==
    \/ StartCall(t)
    \/ StartWhile(t)
    \/ StartLoopEnds(t)
    \/ StartIteration(t)
    \/ StartIterationRaises(t)
    \/ StartEmitChart(t)
    \/ CurrentWindow(t)
    \/ PreviousWindow(t)
    \/ NextWindow(t)
    \/ LoadWindowRead(t)
    \/ LoadWindowRaises(t)
    \/ LoadWindowEmitChart(t)
    \/ WorkerOutcome(t)
    \/ WorkerFinished(t)

\* The files SpecAn and SpecWidget stream and page: every short file of two
\* kinds of rows, and binary files longer than one window and than two,
\* whose samples are the row numbers.
AnCsvFiles == SeqsUpTo({<<1, 2>>, <<3, 4>>}, MaxRows)
AnNpyFiles == SeqsUpTo({<<1, 2>>, <<5, -6>>}, MaxRows)
LongNpyFiles ==
    {[j \in 1..n |-> <<j, 0 - j>>] : n \in {MaxRows + 1, 2 * window_size + 1}}

InitAn ==
    /\ AnalyzerInit
    /\ ReadIdle
    /\ ConverterInit
    /\ has_cb = FALSE
    /\ TaskInit
    /\ WidgetInit
    /\ source_exists = TRUE
    /\ \/ csv_rows \in AnCsvFiles /\ npy_rows = <<>>
       \/ csv_rows = <<>> /\ npy_rows \in AnNpyFiles \cup LongNpyFiles

NextAn ==
    \/ Submit
    \/ Stop
    \/ ChartSetAxisY
    \/ ChartReplaceArray
    \/ WorkerStep(1)

SpecAn == InitAn /\ [][NextAn]_vars

\* --------------------------------------------------------- claims on SpecAn
\* C8: the y-range only widens: of any two set_axis_y deliveries made by the
\* same analyzer, in start() or in load_window(), the later has a minimum no
\* greater and a maximum no smaller, also when the window delivered is all
\* missing markers. (Stated for each delivery and the one before it.)
C8_RangeOnlyWidens ==
    (n_axis >= 2) => (axis[1] <= axis_prev[1] /\ axis[2] >= axis_prev[2])

\* load_window has delivered a window of missing markers only, after real
\* data had set the range.
C8_Witness ==
    /\ a_pc[1] = "load_chart"
    /\ ~Blocked(1)
    /\ n_axis >= 2
    /\ \A j \in 1..Len(y_array) : IsNaN(y_array[j])
    /\ axis[1] < PosInf
    /\ axis[2] > NegInf

\* C9: in every iteration of start()'s loop the window array y_array has
\* window_size entries before and after the shift, and x after the iteration
\* is x before it plus the chunk's length, which is > 0.
C9_WindowLengthAndCursor ==
    (iter # <<>>) =>
        /\ iter.len_before = window_size
        /\ iter.taken > 0
        /\ (a_pc[1] = "chart") =>
              (Len(y_array) = window_size /\ x = iter.x_before + iter.taken)

C11_NoNextIffAtEnd ==
    (signal_path = "npy") =>
        ((~has_next_window) <=> (x + window_size >= Len(npy_rows)))

\* C12: within one run of start() or load_window() no renderer call begins
\* before the renderer has finished the call before it: a run has at most one
\* call the GUI thread has not run; the y-range call of an iteration (and of
\* load_window) has been run when its series call begins, and the series call
\* has been run when the next iteration begins.
C12_Backpressure ==
    \A t \in PoolThreads :
        /\ Cardinality(Unhandled(t)) <= 1
        /\ (Unhandled(t) = {} /\ a_pc[t] \in {"chart", "load_chart"})
              => (last_kind = "set_axis_y")
        /\ (Unhandled(t) = {} /\ a_pc[t] = "next" /\ gen_pos[t] > 0)
              => (last_kind = "replace_array")

\* start() waits for the chart to take the series of its second iteration.
C12_Witness ==
    /\ a_fn[1] = "start"
    /\ a_pc[1] = "next"
    /\ gen_pos[1] >= 2
    /\ Len(gui_queue) = 1
    /\ gui_queue[1].kind = "replace_array"

\* A start() call that has returned normally after reading a file that has chunks.
StartReturned(t) ==
    /\ a_fn[t] = "start"
    /\ a_pc[t] = "outcome"
    /\ a_result[t] = "returned"
    /\ Len(ReadSignal(a_path[t], chunk_size)) > 0

\* C13: continuous replay: start() on a valid file returns only after stop()
\* has been called; without stop() it begins another pass when the chunks are
\* exhausted.
C13_ReturnsOnlyAfterStop ==
    \A t \in PoolThreads : StartReturned(t) => stop_req

\* C13 as amended: start() makes one pass at most, and exactly one when
\* stop() is not called: when the chunk sequence is exhausted, or running is
\* found False, it sets running False and returns, whether or not stop() has
\* been called.
C13_OnePassThenReturn ==
    \A t \in PoolThreads :
        /\ (a_fn[t] = "start") => (run[t].passes <= 1)
        /\ StartReturned(t) => (~running /\ (~stop_req => run[t].passes = 1))

\* start() has read a file of several chunks to its end and returned, and
\* stop() was never called.
C13_Witness ==
    /\ StartReturned(1)
    /\ ~stop_req
    /\ gen_pos[1] = Len(PassChunks(1))
    /\ gen_pos[1] >= 2
    /\ run[1].chart = 2

\* C14: a stop() called at any moment after start() was invoked on the worker,
\* also before its first statement, is never lost: start() makes at most one
\* further series delivery after it.
C14_StopNeverLost ==
    after_stop <= 1

\* C15: every start() call, also one on an analyzer that has streamed or paged
\* before, resets x to -window_size and the extrema to (+inf, -inf) before the
\* first chunk, so the y-range delivered with the first chunk is the min/max
\* of that run's own window.
C15_StartResetsCursorAndExtrema ==
    \A t \in PoolThreads :
        (a_fn[t] = "start" /\ run[t].passes = 1) =>
            /\ (a_pc[t] = "next" /\ gen_pos[t] = 0) =>
                  (x = -window_size /\ y_min = PosInf /\ y_max = NegInf)
            /\ (a_pc[t] = "chart" /\ gen_pos[t] = 1) =>
                  (y_min = NanMin(y_array) /\ y_max = NanMax(y_array))

\* The one signal run() owes for an outcome of fn.
Owed(res) == IF res = "returned" THEN <<"result", "None">> ELSE <<"error", res>>

\* C17: every run() emits exactly one of result and error, result with the
\* return value if and only if fn returned and error if and only if it
\* raised; then finished, once and last; and run() always gets that far.
C17_WorkerSignals ==
    \A t \in PoolThreads :
        CASE a_pc[t] = "finally" ->
                a_result[t] # "none" /\ w_log[t] = <<Owed(a_result[t])>>
          [] a_pc[t] = "idle" ->
                \/ a_result[t] = "none" /\ w_log[t] = <<>>
                \/ /\ a_result[t] # "none"
                   /\ w_log[t] = <<Owed(a_result[t]), <<"finished">>>>
          [] OTHER -> w_log[t] = <<>>

\* A run whose fn raised: error, then finished.
C17_Witness ==
    /\ a_pc[1] = "idle"
    /\ a_result[1] = "ValueError"
    /\ w_log[1] = << <<"error", "ValueError">>, <<"finished">> >>

\* C19: on a path that is None or no file _read_signal yields nothing and
\* raises nothing; start() on it makes no series delivery, raises nothing and
\* returns with running = False.
C19_NoFileStreamsNothing ==
    \A t \in PoolThreads :
        (a_fn[t] = "start" /\ a_path[t] = "none") =>
            /\ ReadSignal(a_path[t], chunk_size) = <<>>
            /\ run[t].chart = 0
            /\ a_result[t] \in {"none", "returned"}
            /\ (a_pc[t] \in {"outcome", "finally"}) =>
                  (a_result[t] = "returned" /\ ~running)

\* start() on no file has returned, while a CSV file with rows exists.
C19_Witness ==
    /\ a_fn[1] = "start"
    /\ a_path[1] = "none"
    /\ a_pc[1] = "finally"
    /\ w_log[1] = << <<"result", "None">> >>
    /\ Len(csv_rows) > 0

\* C20: start() or load_window() run on a path that is no valid file makes
\* no renderer call at all, neither set_axis_y nor replace_array.
C20_NoFileNoRendererCall ==
    \A t \in PoolThreads :
        (a_fn[t] \in Fns /\ a_path[t] = "none") =>
            (run[t].axis = 0 /\ run[t].chart = 0)

\* The methods that page: each sets the cursor and calls load_window.
WindowFns == {"current_window", "previous_window", "next_window"}

\* C21: a window method (current_window, next_window, previous_window, and so
\* load_window) called with a path that is no file ends with an error: its
\* Worker emits error and not result. (The converter's half of the claim, a
\* missing source, is the step ConvStartRaises of SpecConv.)
C21_NoFileIsAnError ==
    \A t \in PoolThreads :
        (a_fn[t] \in WindowFns /\ a_path[t] = "none" /\ a_pc[t] = "finally") =>
            (Len(w_log[t]) = 1 /\ w_log[t][1][1] = "error")

\* C22: the paging cursor is never negative, whatever start(), stop() and
\* window calls came before: every window a window method requests starts at
\* x >= 0; previous_window leaves x = max(0, x - window_size); next_window
\* leaves x unchanged or adds window_size to it, and adds only when
\* x + window_size is below the max_x it found.
C22_PagingCursor ==
    \A t \in PoolThreads :
        (a_fn[t] \in WindowFns /\ a_pc[t] = "load") =>
            /\ x >= 0
            /\ (a_fn[t] = "previous_window") =>
                  (x = Max(0, run[t].x_before - window_size))
            /\ (a_fn[t] = "next_window") =>
                  \/ x = run[t].x_before
                  \/ /\ x = run[t].x_before + window_size
                     /\ run[t].x_before + window_size < run[t].max_x_before

\* C23: in each iteration of start()'s loop the x ramp handed to the renderer
\* starts at the cursor as it is after the iteration advanced it: x_array is
\* x / 50000 .. (x + window_size - 1) / 50000 and the first x delivered is
\* x / 50000.
C23_RampStartsAtAdvancedCursor ==
    \A t \in PoolThreads :
        (a_fn[t] = "start" /\ a_pc[t] = "chart") =>
            /\ x_array = Scaled(Linspace(x, window_size))
            /\ vis[t][1][1] = <<x, sample_rate>>

\* The channel-2 values start() has taken from the generator in this run.
Ingested(t) == Column1(Concat(SubSeq(PassChunks(t), 1, gen_pos[t])))

\* C24: while start() streams, the window holds the newest samples of this
\* run only: after chunks of n samples in all, its last min(n, window_size)
\* entries are the channel-2 values of the last min(n, window_size) samples
\* read, in order, and every entry before them is a missing marker; also when
\* the analyzer has run start() or load_window() before.
C24_WindowIsThisRunsTail ==
    \A t \in PoolThreads :
        (a_fn[t] = "start" /\ a_pc[t] = "chart") =>
            LET got == Ingested(t)
                n == Len(got)
                m == Min(n, window_size)
            IN  /\ Len(y_array) = window_size
                /\ \A j \in 1..window_size :
                      IF j > window_size - m
                      THEN y_array[j] = got[n - window_size + j]
                      ELSE IsNaN(y_array[j])

\* The last set_axis_y call thread t emitted: the one the GUI thread has yet
\* to run, or else the one it ran last.
LastAxis(t) ==
    IF \E k \in Unhandled(t) : gui_queue[k].kind = "set_axis_y"
    THEN LET k == CHOOSE k \in Unhandled(t) : gui_queue[k].kind = "set_axis_y"
         IN  <<gui_queue[k].a, gui_queue[k].b>>
    ELSE axis

\* C27: every y-range start() or load_window() hands to the renderer has
\* min <= max, and every y of the series delivery that follows it that is no
\* missing marker lies in [min, max].
C27_RangeWellFormed ==
    /\ \A k \in 1..Len(gui_queue) :
          (gui_queue[k].kind = "set_axis_y") => (gui_queue[k].a <= gui_queue[k].b)
    /\ \A t \in PoolThreads :
          (a_pc[t] \in {"chart", "load_chart"}) =>
              \A j \in 1..Len(vis[t][2]) :
                  IsNaN(vis[t][2][j])
                  \/ (LastAxis(t)[1] <= vis[t][2][j] /\ vis[t][2][j] <= LastAxis(t)[2])

\* C28: next_window() changes x, to x + window_size, if and only if
\* has_next_window() answered True just before the call; previous_window()
\* changes x if and only if has_previous_window() answered True just before.
C28_ButtonsAgreeWithMoves ==
    \A t \in PoolThreads :
        (a_pc[t] = "load") =>
            /\ (a_fn[t] = "next_window") =>
                  /\ (x # run[t].x_before) <=> run[t].had_next
                  /\ (x # run[t].x_before) => (x = run[t].x_before + window_size)
            /\ (a_fn[t] = "previous_window") =>
                  ((x # run[t].x_before) <=> run[t].had_previous)

\* =============================================================== SpecWidget
\* SignalAppWidget with its one SignalAnalyzer: the GUI thread runs the button
\* slots, set_signal_path and the queued slot calls, one at a time; the
\* Workers the slots hand to QThreadPool.globalInstance() run on two pool
\* threads.

\* The Workers the widget creates before the model stops creating more.
MaxLaunched == 2

\* worker = Worker(fn, signal_path=p, ...), finished connected or not, and
\* self.threadpool.start(worker)
Launch(fn, p, conn) ==
    /\ launched < MaxLaunched
    /\ launched' = launched + 1
    /\ pool_queue' = Append(pool_queue, [fn |-> fn, path |-> p, conn |-> conn])

\* QThreadPool: a free thread takes the oldest waiting Worker and calls run()
PoolRun(t) ==
    /\ pool_queue # <<>>
    /\ RunWorker(t, Head(pool_queue).fn, Head(pool_queue).path, Head(pool_queue).conn)
    /\ pool_queue' = Tail(pool_queue)
    /\ UNCHANGED <<w_path, prev_enabled, next_enabled, launched>>

\* lines 104-112, called by set_signal_path with the new path p
current_window_signal_analyzer(p) == Launch("current_window", p, TRUE)

\* lines 61-70
set_signal_path ==
    \E p \in Paths :
        /\ w_path' = p
        /\ IF p = "npy"
           THEN /\ prev_enabled' = TRUE
                /\ next_enabled' = TRUE
                /\ current_window_signal_analyzer(p)
           ELSE /\ prev_enabled' = FALSE
                /\ next_enabled' = FALSE
                /\ UNCHANGED <<pool_queue, launched>>
        /\ UNCHANGED <<filevars, fieldvars, readvars, convvars, taskvars, rendervars>>

\* lines 72-97: the Start button is pressed
start_signal_analyser ==
    /\ Launch("start", w_path, FALSE)
    /\ UNCHANGED <<w_path, prev_enabled, next_enabled>>
    /\ UNCHANGED <<filevars, fieldvars, readvars, convvars, taskvars, rendervars>>

\* lines 114-123: the Previous window button, which is enabled, is pressed
previous_window_signal_analyzer ==
    /\ prev_enabled
    /\ Launch("previous_window", w_path, TRUE)
    /\ UNCHANGED <<w_path, prev_enabled, next_enabled>>
    /\ UNCHANGED <<filevars, fieldvars, readvars, convvars, taskvars, rendervars>>

\* lines 125-134: the Next window button, which is enabled, is pressed
next_window_signal_analyzer ==
    /\ next_enabled
    /\ Launch("next_window", w_path, TRUE)
    /\ UNCHANGED <<w_path, prev_enabled, next_enabled>>
    /\ UNCHANGED <<filevars, fieldvars, readvars, convvars, taskvars, rendervars>>

\* lines 136-139: the slot connected to finished, run by the GUI thread
updated_window_signal_analyzer ==
    /\ gui_queue # <<>>
    /\ Head(gui_queue).kind = "updated"
    /\ prev_enabled' = has_previous_window
    /\ next_enabled' = has_next_window
    /\ gui_queue' = Tail(gui_queue)
    /\ UNCHANGED <<w_path, pool_queue, launched>>
    /\ UNCHANGED <<last_kind, axis_prev, axis, n_axis, chart>>
    /\ UNCHANGED <<filevars, fieldvars, readvars, convvars, taskvars>>

\* One CSV file and one binary file, both on disk.
InitWidget ==
    /\ AnalyzerInit
    /\ ReadIdle
    /\ ConverterInit
    /\ has_cb = FALSE
    /\ TaskInit
    /\ WidgetInit
    /\ source_exists = TRUE
    /\ csv_rows = <<<<1, 2>>, <<3, 4>>>>
    /\ npy_rows = <<<<1, 2>>, <<5, -6>>, <<1, 2>>>>

NextWidget ==
    \/ set_signal_path
    \/ start_signal_analyser
    \/ previous_window_signal_analyzer
    \/ next_window_signal_analyzer
    \/ Stop
    \/ ChartSetAxisY
    \/ ChartReplaceArray
    \/ updated_window_signal_analyzer
    \/ \E t \in PoolThreads : PoolRun(t) \/ WorkerStep(t)

SpecWidget == InitWidget /\ [][NextWidget]_vars

\* ----------------------------------------------------- claims on SpecWidget
\* Thread t is inside a SignalAnalyzer method that writes x, x_array, y_array,
\* y_min or y_max: past its first statement and not yet returned.
Inside(t) == a_pc[t] \in {"while", "next", "chart", "load", "load_chart"}

\* C18: under every sequence of button presses and set_signal_path calls, at
\* most one producer task runs on the shared SignalAnalyzer at a time: no two
\* pool threads are inside such a method together.
C18_OneProducerAtATime ==
    \A s, t \in PoolThreads : (Inside(s) /\ Inside(t)) => (s = t)

====
